---- MODULE Spec2Model ----
(***************************************************************************)
(* The embedding / semantic-search pipeline of controllers/chatController.js *)
(* over the tables of config/db.js: generation of embeddings, their        *)
(* storage (upsert), similarity ranking with threshold and keyword         *)
(* fallback, conversation grouping, and the backfill job.                  *)
(*                                                                         *)
(* Conventions.                                                            *)
(*  - A JavaScript string is a sequence of one-character strings.          *)
(*  - A value that may be null/undefined is a set: {} is absent, {v} is v. *)
(*  - A similarity is the exact rational sign(d)*d^2 / (|a|^2*|b|^2), kept *)
(*    as [num, den] with den > 0: the signed square of the cosine, which   *)
(*    orders and thresholds exactly as the cosine itself does.             *)
(*  - Every await of the code is a separate action: the provider request   *)
(*    or the SQL statement is issued by one action and answered by the     *)
(*    next one of the same request.                                        *)
(***************************************************************************)
EXTENDS Integers, Sequences, FiniteSets, TLC

VARIABLES
    conversations,  \* table conversations: rows [id, user_id]
    messages,       \* table messages: rows [id, conversation_id, content, created_at]
    embeddings,     \* table embeddings: rows [id, message_id, embedding_vector, model_name]
    nextConvId,     \* sequence behind conversations.id
    nextMsgId,      \* sequence behind messages.id
    search,         \* the searchMessages request being served
    backfill,       \* the generateMissingEmbeddings request being served
    tasks,          \* detached generateAndStoreEmbedding calls, by message id
    save,           \* the saveChatMessages request being served
    del,            \* the deleteConversation request being served
    upsertLog,      \* direct storeEmbedding calls made so far (upsert scenario)
    call,           \* the direct call of a helper being made (helper scenarios)
    ops             \* number of requests started so far

vars == <<conversations, messages, embeddings, nextConvId, nextMsgId, search,
          backfill, tasks, save, del, upsertLog, call, ops>>

dbVars == <<conversations, messages, embeddings, nextConvId, nextMsgId>>

(***************************************************************************)
(* Bounds of the model.                                                    *)
(***************************************************************************)
MaxOps == 2          \* requests started in one behaviour of Spec
MaxUpserts == 3      \* direct storeEmbedding calls in the upsert scenario
MaxOver == 2         \* stored embeddings beyond the cap of 50 in the ranking scenario
MaxOverErrors == 1   \* unembedded messages beyond the 5 reported errors in the backfill scenario
MaxDim == 3          \* components of the vectors cosineSimilarity is called with directly
MaxBacklog == 3      \* unembedded messages of one user in the repeated-backfill scenario

(***************************************************************************)
(* Program constants.                                                      *)
(***************************************************************************)
TopK == 50                   \* .slice(0, 50) and LIMIT 50
DefaultLimit == 100          \* parseInt(req.query.limit) || 100
MaxErrors == 5               \* errors.slice(0, 5)
EMBEDDING_MODEL == "nomic-embed-text:latest"
\* SIMILARITY_THRESHOLD = 0.3, as the signed square 9/100
SIMILARITY_THRESHOLD == [num |-> 9, den |-> 100]

Users == {1, 2}

(***************************************************************************)
(* Strings.                                                                *)
(***************************************************************************)
Whitespace == {" ", "\n"}

RECURSIVE TrimStart(_)
TrimStart(s) ==
    IF s = <<>> THEN s
    ELSE IF Head(s) \in Whitespace THEN TrimStart(Tail(s)) ELSE s

RECURSIVE TrimEnd(_)
TrimEnd(s) ==
    IF s = <<>> THEN s
    ELSE IF s[Len(s)] \in Whitespace THEN TrimEnd(SubSeq(s, 1, Len(s) - 1)) ELSE s

\* String.prototype.trim: strips every leading and trailing whitespace character
trim(s) == TrimEnd(TrimStart(s))

RECURSIVE SqlTrimStart(_)
SqlTrimStart(s) ==
    IF s = <<>> THEN s
    ELSE IF Head(s) = " " THEN SqlTrimStart(Tail(s)) ELSE s

RECURSIVE SqlTrimEnd(_)
SqlTrimEnd(s) ==
    IF s = <<>> THEN s
    ELSE IF s[Len(s)] = " " THEN SqlTrimEnd(SubSeq(s, 1, Len(s) - 1)) ELSE s

\* SQL TRIM(x): strips leading and trailing spaces only
SqlTrim(s) == SqlTrimEnd(SqlTrimStart(s))

\* !text || text.trim().length < 3   (text is absent, empty, or trims short)
TooShort(text) ==
    \/ text = {}
    \/ \E s \in text : s = <<>> \/ Len(trim(s)) < 3

Lower(c) == CASE c = "A" -> "a" [] c = "B" -> "b" [] c = "C" -> "c" [] OTHER -> c

\* s LIKE p, case-insensitively: % matches any run of characters, _ any one
RECURSIVE ILike(_, _)
ILike(s, p) ==
    IF p = <<>> THEN s = <<>>
    ELSE IF Head(p) = "%"
         THEN ILike(s, Tail(p)) \/ (s # <<>> /\ ILike(Tail(s), p))
         ELSE /\ s # <<>>
              /\ (Head(p) = "_" \/ Lower(Head(s)) = Lower(Head(p)))
              /\ ILike(Tail(s), Tail(p))

(***************************************************************************)
(* JSON text of a vector: JSON.stringify and JSON.parse.                   *)
(***************************************************************************)
Elems == -1 .. 4

RECURSIVE JoinNums(_)
JoinNums(v) ==
    IF v = <<>> THEN <<>>
    ELSE IF Len(v) = 1 THEN <<ToString(v[1])>>
    ELSE <<ToString(v[1]), ",">> \o JoinNums(Tail(v))

\* JSON.stringify(embedding) of an array of numbers
JSONstringify(v) == <<"[">> \o JoinNums(v) \o <<"]">>

IsNumTok(t) == \E n \in Elems : ToString(n) = t
NumOf(t) == CHOOSE n \in Elems : ToString(n) = t

\* the elements of "n , n , ... n"; {} when the text is not of that form
RECURSIVE ParseNums(_)
ParseNums(toks) ==
    IF toks = <<>> THEN {}
    ELSE IF ~IsNumTok(Head(toks)) THEN {}
    ELSE IF Len(toks) = 1 THEN {<<NumOf(toks[1])>>}
    ELSE IF toks[2] # "," THEN {}
    ELSE {<<NumOf(toks[1])>> \o r : r \in ParseNums(Tail(Tail(toks)))}

\* JSON.parse(row.embedding_vector): {v} for the text of an array, {} when it throws
JSONparse(text) ==
    IF Len(text) < 2 \/ text[1] # "[" \/ text[Len(text)] # "]" THEN {}
    ELSE IF Len(text) = 2 THEN {<<>>}
    ELSE ParseNums(SubSeq(text, 2, Len(text) - 1))

(***************************************************************************)
(* cosineSimilarity                                                        *)
(***************************************************************************)
RECURSIVE Dot(_, _)
Dot(a, b) == IF a = <<>> THEN 0 ELSE a[1] * b[1] + Dot(Tail(a), Tail(b))

Zero == [num |-> 0, den |-> 1]

cosineSimilarityUnguarded(vecA, vecB) ==
    IF vecA = {} \/ vecB = {} THEN Zero
    ELSE LET a == CHOOSE x \in vecA : TRUE
             b == CHOOSE x \in vecB : TRUE
         IN  IF Len(a) # Len(b) THEN Zero
             ELSE [num |-> IF Dot(a, b) < 0 THEN -(Dot(a, b) * Dot(a, b))
                           ELSE Dot(a, b) * Dot(a, b),
                   den |-> Dot(a, a) * Dot(b, b)]

cosineSimilarity(vecA, vecB) ==
    IF vecA = {} \/ vecB = {} THEN Zero
    ELSE LET a == CHOOSE x \in vecA : TRUE
             b == CHOOSE x \in vecB : TRUE
         IN  IF Len(a) # Len(b) THEN Zero
             ELSE LET dotProduct == Dot(a, b)
                      normA == Dot(a, a)
                      normB == Dot(b, b)
                  IN  IF normA = 0 \/ normB = 0 THEN Zero
                      ELSE [num |-> IF dotProduct < 0
                                    THEN -(dotProduct * dotProduct)
                                    ELSE dotProduct * dotProduct,
                            den |-> normA * normB]

\* The value returned is a double: dotProduct / (Math.sqrt(normA) *
\* Math.sqrt(normB)), each operation rounded to nearest.  For integer
\* components the three sums are exact; RoundedAboveOne holds the triples
\* <<|dotProduct|, normA, normB>>, sums up to 7, for which the rounded
\* quotient is greater than 1 (Math.sqrt(3) * Math.sqrt(3) is
\* 2.9999999999999996 and 3 / 2.9999999999999996 is 1.0000000000000002).
RoundedAboveOne == {<<3, 3, 3>>, <<6, 6, 6>>}

\* the magnitude of the double cosineSimilarity returns is greater than 1
cosineSimilarityAboveOne(vecA, vecB) ==
    /\ vecA # {} /\ vecB # {}
    /\ \E a \in vecA, b \in vecB :
        /\ Len(a) = Len(b)
        /\ LET dotProduct == Dot(a, b)
               magnitude == IF dotProduct < 0 THEN -dotProduct ELSE dotProduct
           IN  <<magnitude, Dot(a, a), Dot(b, b)>> \in RoundedAboveOne

\* s >= t on similarities
SimGE(s, t) == s.num * t.den >= t.num * s.den
SimGT(s, t) == s.num * t.den > t.num * s.den

(***************************************************************************)
(* The SQL statements, as functions of the tables.                         *)
(***************************************************************************)
Take(s, n) == SubSeq(s, 1, IF n < Len(s) THEN n ELSE Len(s))

\* ORDER BY created_at DESC over a set of rows (equal stamps: by key k)
RECURSIVE OrderByCreatedDesc(_)
OrderByCreatedDesc(S) ==
    IF S = {} THEN <<>>
    ELSE LET x == CHOOSE r \in S : \A q \in S :
                      \/ r.created_at > q.created_at
                      \/ (r.created_at = q.created_at /\ r.k <= q.k)
         IN  <<x>> \o OrderByCreatedDesc(S \ {x})

SelectEmbeddedOfAnyUser(userId) ==
    OrderByCreatedDesc(
        {[id |-> m.id, conversation_id |-> m.conversation_id, content |-> m.content,
          created_at |-> m.created_at, embedding_vector |-> e.embedding_vector,
          k |-> e.id] :
            <<m, e>> \in {<<m2, e2>> \in messages \X embeddings : e2.message_id = m2.id}})

\* SELECT ... FROM messages m JOIN conversations c JOIN embeddings e
\*  WHERE c.user_id = $1 ORDER BY m.created_at DESC        (searchMessages)
SelectEmbedded(userId) ==
    OrderByCreatedDesc(
        {[id |-> m.id, conversation_id |-> m.conversation_id, content |-> m.content,
          created_at |-> m.created_at, embedding_vector |-> e.embedding_vector,
          k |-> e.id] :
            <<m, e>> \in {<<m2, e2>> \in messages \X embeddings :
                /\ e2.message_id = m2.id
                /\ \E c \in conversations :
                      c.id = m2.conversation_id /\ c.user_id = userId}})

\* SELECT ..., 0.5 as similarity FROM messages m JOIN conversations c
\*  WHERE c.user_id = $1 AND m.content ILIKE $2
\*  ORDER BY m.created_at DESC LIMIT 50                    (performKeywordSearch)
SelectKeyword(userId, query) ==
    Take(OrderByCreatedDesc(
        {[id |-> m.id, conversation_id |-> m.conversation_id, content |-> m.content,
          created_at |-> m.created_at, k |-> m.id] :
            m \in {m2 \in messages :
                /\ ILike(m2.content, <<"%">> \o query \o <<"%">>)
                /\ \E c \in conversations :
                      c.id = m2.conversation_id /\ c.user_id = userId}}), TopK)

\* SELECT m.id, m.content FROM messages m JOIN conversations c
\*  LEFT JOIN embeddings e ON m.id = e.message_id
\*  WHERE c.user_id = $1 AND e.id IS NULL AND LENGTH(TRIM(m.content)) >= 3
\*  ORDER BY m.created_at DESC LIMIT $2                    (generateMissingEmbeddings)
SelectUnembedded(userId, limit) ==
    Take(OrderByCreatedDesc(
        {[id |-> m.id, content |-> m.content, created_at |-> m.created_at, k |-> m.id] :
            m \in {m2 \in messages :
                /\ \A e \in embeddings : e.message_id # m2.id
                /\ Len(SqlTrim(m2.content)) >= 3
                /\ \E c \in conversations :
                      c.id = m2.conversation_id /\ c.user_id = userId}}), limit)

\* a key for a new embeddings row (id SERIAL: a value no row holds; never read)
NewEmbeddingId(embs) ==
    CHOOSE i \in 1 .. Cardinality(embs) + 1 : \A e \in embs : e.id # i

\* INSERT INTO embeddings (message_id, embedding_vector, model_name, ...)
\*  VALUES ($1, $2, $3, ...) ON CONFLICT (message_id) DO UPDATE SET
\*  embedding_vector = EXCLUDED.embedding_vector, model_name = EXCLUDED.model_name
InsertPlain(embs, messageId, text, model) ==
    embs \cup {[id |-> NewEmbeddingId(embs), message_id |-> messageId,
                embedding_vector |-> text, model_name |-> model]}

InsertKeepFirst(embs, messageId, text, model) ==
    IF \E e \in embs : e.message_id = messageId
    THEN embs
    ELSE embs \cup {[id |-> NewEmbeddingId(embs), message_id |-> messageId,
                     embedding_vector |-> text, model_name |-> model]}

InsertOnConflictUpdate(embs, messageId, text, model) ==
    IF \E e \in embs : e.message_id = messageId
    THEN {IF e.message_id = messageId
          THEN [e EXCEPT !.embedding_vector = text, !.model_name = model]
          ELSE e : e \in embs}
    ELSE embs \cup {[id |-> NewEmbeddingId(embs), message_id |-> messageId,
                     embedding_vector |-> text, model_name |-> model]}

\* message_id INTEGER UNIQUE REFERENCES messages(id): the insert is refused
\* when the message row is gone
ForeignKeyHolds(messageId) == \E m \in messages : m.id = messageId

\* DELETE FROM messages ...: ON DELETE CASCADE removes the embeddings of the
\* deleted messages with them
CascadeEmbeddings(embs, msgs) == {e \in embs : \E m \in msgs : m.id = e.message_id}

(***************************************************************************)
(* Ranking (searchMessages, "Calculate similarity" and "Sort by similarity") *)
(***************************************************************************)
\* result.rows.map(row => { try {...} catch { return null } }).filter(msg => msg !== null)
\* one unreadable row abandons the whole ranking
messagesWithScoresAllOrNothing(queryEmbedding, rows) ==
    IF \E i \in 1 .. Len(rows) : JSONparse(rows[i].embedding_vector) = {}
    THEN <<>>
    ELSE [i \in 1 .. Len(rows) |->
            [id |-> rows[i].id, conversationId |-> rows[i].conversation_id,
             content |-> rows[i].content,
             similarity |-> cosineSimilarity(queryEmbedding,
                                             JSONparse(rows[i].embedding_vector))]]

RECURSIVE messagesWithScores(_, _)
messagesWithScores(queryEmbedding, rows) ==
    IF rows = <<>> THEN <<>>
    ELSE LET row == Head(rows)
             messageEmbedding == JSONparse(row.embedding_vector)
             rest == messagesWithScores(queryEmbedding, Tail(rows))
         IN  IF messageEmbedding = {} THEN rest
             ELSE <<[id |-> row.id, conversationId |-> row.conversation_id,
                     content |-> row.content,
                     similarity |-> cosineSimilarity(queryEmbedding, messageEmbedding)]>>
                  \o rest

\* Array.prototype.sort((a, b) => b.similarity - a.similarity): stable, descending
RECURSIVE InsertDesc(_, _)
InsertDesc(s, x) ==
    IF s = <<>> THEN <<x>>
    ELSE IF SimGE(s[1].similarity, x.similarity)
         THEN <<s[1]>> \o InsertDesc(Tail(s), x)
         ELSE <<x>> \o s

RECURSIVE SortBySimilarityDesc(_)
SortBySimilarityDesc(s) ==
    IF s = <<>> THEN <<>>
    ELSE InsertDesc(SortBySimilarityDesc(SubSeq(s, 1, Len(s) - 1)), s[Len(s)])

PassesThreshold(msg) == SimGE(msg.similarity, SIMILARITY_THRESHOLD)

relevantSlicedBeforeSort(scored) ==
    SortBySimilarityDesc(Take(SelectSeq(scored, PassesThreshold), TopK))

\* .filter(msg => msg.similarity >= SIMILARITY_THRESHOLD).sort(...).slice(0, 50)
relevantMessages(scored) ==
    Take(SortBySimilarityDesc(SelectSeq(scored, PassesThreshold)), TopK)

(***************************************************************************)
(* Grouping by conversation: const conversations = {}; ...;                *)
(* Object.values(conversations)                                            *)
(***************************************************************************)
RECURSIVE AscendingKeys(_)
AscendingKeys(K) ==
    IF K = {} THEN <<>>
    ELSE LET x == CHOOSE y \in K : \A z \in K : y <= z
         IN  <<x>> \o AscendingKeys(K \ {x})

\* the order in which Object.values enumerates the keys: the keys of the
\* object are conversation ids (INTEGER), i.e. integer-index property names,
\* which an object enumerates in ascending numeric order, not creation order
ObjectKeyOrder(hits) ==
    AscendingKeys({hits[i].conversationId : i \in 1 .. Len(hits)})

\* Object.values(conversations) after the forEach over the hits
GroupByConversation(hits) ==
    LET keys == ObjectKeyOrder(hits)
    IN  [i \in 1 .. Len(keys) |->
            [conversationId |-> keys[i],
             messages |-> SelectSeq(hits, LAMBDA h : h.conversationId = keys[i])]]

(***************************************************************************)
(* The embedding provider (Ollama /api/embeddings) and generateEmbedding   *)
(***************************************************************************)
\* vectors the provider answers with
VecPool == {<<1, 0>>, <<1, 1>>, <<0, 1>>}

\* what one fetch() of generateEmbedding can end in
ProviderOutcomes ==
    [kind : {"ok"}, embedding : VecPool]
        \cup [kind : {"status", "badjson", "novector", "neterr", "timeout"},
              embedding : {<<>>}]

TextShortUntrimmed(text) == text = {} \/ \E s \in text : Len(s) < 3

\* the guard of generateEmbedding: no request is made for such a text
TextTooShort(text) == TooShort(text)

\* what generateEmbedding returns once its request has ended in `outcome`:
\* data.embedding, or null from the catch block
generateEmbeddingResult(outcome) ==
    IF outcome.kind = "ok" THEN {outcome.embedding} ELSE {}

ThrowsOnProviderFailure(outcome) == outcome.kind # "ok"

ThrowsOnTimeout(outcome) == outcome.kind = "timeout"

\* does generateEmbedding raise to its caller?  The request, the status test,
\* response.json() and the test of data.embedding are all inside
\* try { ... } catch (error) { ...; return null }
generateEmbeddingThrows(outcome) == FALSE

(***************************************************************************)
(* searchMessages and performKeywordSearch                                 *)
(***************************************************************************)
QueryAcceptsUntrimmed(query) ==
    \/ query = {}
    \/ \E s \in query : s = <<>> \/ Len(s) < 3

\* if (!query || query.trim().length < 3) return res.status(400)...
QueryTooShort(query) == TooShort(query)

NeverFallsBack(rows, relevant) == FALSE

\* the two tests of searchMessages that hand the request to the keyword search
\* once the stored embeddings were read: no row, or no row above the threshold
FallsBack(rows, relevant) == Len(rows) = 0 \/ Len(relevant) = 0

Response(status, searchType, hits) ==
    [status |-> status, searchType |-> searchType, ranked |-> hits,
     conversations |-> GroupByConversation(hits), totalMessages |-> Len(hits)]

\* catch (error) { res.status(500).json({ error: "Failed to search messages" }) }
\* of searchMessages
SearchError == Response(500, "none", <<>>)

KeywordSearchEmptySuccess == Response(200, "keyword", <<>>)

\* the same catch block of performKeywordSearch
KeywordSearchError == Response(500, "none", <<>>)

\* 0.5 as similarity
KeywordSimilarity == [num |-> 1, den |-> 4]

KeywordHits(rows) ==
    [i \in 1 .. Len(rows) |->
        [id |-> rows[i].id, conversationId |-> rows[i].conversation_id,
         content |-> rows[i].content, similarity |-> KeywordSimilarity]]

SearchIdle ==
    [pc |-> "idle", userId |-> 1, query |-> {}, queryEmbedding |-> {},
     providerCalls |-> 0, storeQueries |-> 0, fetched |-> -1, res |-> <<>>]

\* request bodies of POST /search
QueryPool ==
    { {}, {<<>>}, {<<" ", "a", "b", " ">>}, {<<"a", "b", "c">>}, {<<"a", "_", "c">>},
      {<<" ", "B", "C", "\n">>}, {<<"x", "y", "z">>} }

\* searchMessages up to its first await
searchMessages(userId, query) ==
    /\ search.pc \in {"idle", "done"}
    /\ ops < MaxOps
    /\ ops' = ops + 1
    /\ search' =
        IF QueryTooShort(query)
        THEN [SearchIdle EXCEPT !.pc = "done", !.userId = userId, !.query = query,
                                !.res = <<Response(400, "none", <<>>)>>]
        ELSE IF TextTooShort(query)
        THEN \* generateEmbedding returned null at once: performKeywordSearch
             [SearchIdle EXCEPT !.pc = "keyword", !.userId = userId, !.query = query,
                                !.storeQueries = 1]
        ELSE [SearchIdle EXCEPT !.pc = "embed", !.userId = userId, !.query = query,
                                !.providerCalls = 1]
    /\ UNCHANGED <<dbVars, backfill, tasks, save, del, upsertLog, call>>

AlwaysFetches(queryEmbedding) == "fetch"

\* if (!queryEmbedding) return;   the handler ends without a response
ReturnsUnanswered(queryEmbedding) == IF queryEmbedding = {} THEN "done" ELSE "fetch"

\* if (!queryEmbedding) return performKeywordSearch(userId, query, res);
\* otherwise the SELECT of the embedded messages comes next
AfterEmbedQuery(queryEmbedding) == IF queryEmbedding = {} THEN "keyword" ELSE "fetch"

\* generateEmbedding(query) returns: keyword fallback on null, else the
\* SELECT of the user's embedded messages is issued
searchEmbedReturn(outcome) ==
    /\ search.pc = "embed"
    /\ LET queryEmbedding == generateEmbeddingResult(outcome)
       IN  search' =
            IF generateEmbeddingThrows(outcome)
            THEN [search EXCEPT !.pc = "done", !.res = Append(@, SearchError)]
            ELSE [search EXCEPT
                    !.queryEmbedding = queryEmbedding,
                    !.pc = AfterEmbedQuery(queryEmbedding),
                    !.storeQueries = @ + 1]
    /\ UNCHANGED <<dbVars, backfill, tasks, save, del, upsertLog, call, ops>>

\* the SELECT of the embedded messages returns (or fails): rank, then respond
\* semantic or call performKeywordSearch
searchFetchReturn(dbOk) ==
    /\ search.pc = "fetch"
    /\ IF ~dbOk
       THEN search' = [search EXCEPT !.pc = "done", !.res = Append(@, SearchError)]
       ELSE \E rows \in {SelectEmbedded(search.userId)} :
            \E relevant \in {relevantMessages(
                                messagesWithScores(search.queryEmbedding, rows))} :
                IF FallsBack(rows, relevant)
                THEN search' = [search EXCEPT !.pc = "keyword",
                                              !.fetched = Len(rows),
                                              !.storeQueries = @ + 1]
                ELSE \E r \in {Response(200, "semantic", relevant)} :
                     search' = [search EXCEPT !.pc = "done",
                                              !.fetched = Len(rows),
                                              !.res = Append(@, r)]
    /\ UNCHANGED <<dbVars, backfill, tasks, save, del, upsertLog, call, ops>>

\* the SELECT of performKeywordSearch returns (or fails)
performKeywordSearch(dbOk) ==
    /\ search.pc = "keyword"
    /\ IF ~dbOk
       THEN search' = [search EXCEPT !.pc = "done", !.res = Append(@, KeywordSearchError)]
       ELSE \E q \in search.query :
            \E rows \in {SelectKeyword(search.userId, q)} :
            \E r \in {Response(200, "keyword", KeywordHits(rows))} :
                search' = [search EXCEPT !.pc = "done", !.res = Append(@, r)]
    /\ UNCHANGED <<dbVars, backfill, tasks, save, del, upsertLog, call, ops>>

SearchStep ==
    \/ \E u \in Users, q \in QueryPool : searchMessages(u, q)
    \/ \E o \in ProviderOutcomes : searchEmbedReturn(o)
    \/ \E ok \in BOOLEAN : searchFetchReturn(ok)
    \/ \E ok \in BOOLEAN : performKeywordSearch(ok)

(***************************************************************************)
(* storeEmbedding and generateAndStoreEmbedding                            *)
(***************************************************************************)
\* the table after the INSERT ... ON CONFLICT of storeEmbedding has been applied
storeEmbedding(embs, messageId, embedding) ==
    InsertOnConflictUpdate(embs, messageId, JSONstringify(embedding), EMBEDDING_MODEL)

\* an INSERT that the store applies whether or not the message row exists
StoreIgnoresMessage(dbOk, messageId) == dbOk

\* the INSERT of storeEmbedding is applied: the store answers and the message
\* row it references exists; otherwise storeEmbedding logs and returns false
StoreApplies(dbOk, messageId) == dbOk /\ ForeignKeyHolds(messageId)

\* if (!content || content.trim().length < 3) return;   (generateAndStoreEmbedding)
ContentTooShort(content) == TooShort({content})

\* generateAndStoreEmbedding returns without a provider request
SkipsGeneration(content) == ContentTooShort(content) \/ TextTooShort({content})

\* does generateAndStoreEmbedding reject?  Its whole body is inside
\* try { ... } catch (error) { console.error(...) }, generateEmbedding returns
\* null on every failure and storeEmbedding returns false on every failure.
generateAndStoreEmbeddingThrows(kind) == FALSE

(***************************************************************************)
(* Detached tasks: generateAndStoreEmbedding(...).catch(...) of             *)
(* saveChatMessages.  tasks[messageId] = [pc, embedding] while the call of  *)
(* that message is running; a call that has returned is no longer there.    *)
(***************************************************************************)
\* the calls of generateAndStoreEmbedding that are past their first await,
\* among those started for the messages `started` (message id -> content):
\* each of them has one provider request in flight
CallsStarted(started) ==
    [m \in {x \in DOMAIN started : ~SkipsGeneration(started[x])} |->
        [pc |-> "provider", embedding |-> {}]]

Without(f, m) == [x \in DOMAIN f \ {m} |-> f[x]]

\* the value generateAndStoreEmbedding gets from its await of generateEmbedding
\* (an exception of generateEmbedding would end in its catch block: no vector)
AwaitedEmbedding(outcome) ==
    IF generateEmbeddingThrows(outcome) THEN {} ELSE generateEmbeddingResult(outcome)

SurfacesUnlessStored(kind) == kind # "stored"

\* does the end of a detached call reach the request that started it?  The
\* call catches its own errors and the handler attaches .catch(err => warn)
\* to the promise it does not await.
TaskFailureSurfaces(kind) == FALSE

\* the saveChatMessages request once one of its detached calls ended with `kind`
SaveAfterTask(kind) ==
    IF TaskFailureSurfaces(kind) THEN [save EXCEPT !.res = Append(@, 500)] ELSE save

\* generateEmbedding returns inside the task: null ends the task, a vector
\* issues the INSERT of storeEmbedding
taskProviderReturn(m, outcome) ==
    /\ m \in DOMAIN tasks
    /\ tasks[m].pc = "provider"
    /\ LET embedding == AwaitedEmbedding(outcome)
       IN  IF embedding = {}
           THEN /\ tasks' = Without(tasks, m)
                /\ save' = SaveAfterTask("genfail")
           ELSE /\ tasks' = [tasks EXCEPT ![m] = [pc |-> "store", embedding |-> embedding]]
                /\ save' = save
    /\ UNCHANGED <<dbVars, search, backfill, del, upsertLog, call, ops>>

\* the INSERT of storeEmbedding returns inside the task, which ends
taskStoreReturn(m, dbOk) ==
    /\ m \in DOMAIN tasks
    /\ tasks[m].pc = "store"
    /\ LET embedding == CHOOSE v \in tasks[m].embedding : TRUE
       IN  IF StoreApplies(dbOk, m)
           THEN /\ embeddings' = storeEmbedding(embeddings, m, embedding)
                /\ save' = SaveAfterTask("stored")
           ELSE /\ embeddings' = embeddings
                /\ save' = SaveAfterTask("storefail")
    /\ tasks' = Without(tasks, m)
    /\ UNCHANGED <<conversations, messages, nextConvId, nextMsgId, search, backfill,
                   del, upsertLog, call, ops>>

TaskStep ==
    \/ \E m \in DOMAIN tasks, o \in ProviderOutcomes : taskProviderReturn(m, o)
    \/ \E m \in DOMAIN tasks, ok \in BOOLEAN : taskStoreReturn(m, ok)

(***************************************************************************)
(* generateMissingEmbeddings (the backfill job)                            *)
(***************************************************************************)
\* parseInt(req.query.limit): {} is NaN (limit absent or not a number), {n} is n
LimitParams == {{}, {-1}, {0}, {2}}

\* parseInt(req.query.limit) || 100: NaN and 0 are falsy
EffectiveLimit(p) == IF p = {} \/ p = {0} THEN DefaultLimit ELSE CHOOSE n \in p : TRUE

BackfillIdle ==
    [pc |-> "idle", userId |-> 1, limitParam |-> {}, limit |-> 0, rows |-> <<>>,
     i |-> 0, embedding |-> {}, successCount |-> 0, failCount |-> 0, errors |-> <<>>,
     log |-> <<>>, providerCalls |-> 0, res |-> <<>>]

BackfillResult(run) ==
    [status |-> 200, totalProcessed |-> Len(run.rows),
     successCount |-> run.successCount, failCount |-> run.failCount,
     errors |-> Take(run.errors, MaxErrors)]

BackfillError == [status |-> 500, totalProcessed |-> 0, successCount |-> 0,
                  failCount |-> 0, errors |-> <<>>]

\* the body of the for loop once generateAndStoreEmbedding(row.id, row.content)
\* has settled with `kind`: try { await ...; successCount++ } catch { failCount++;
\* errors.push(...) }
ItemSettled(run, kind, embedding) ==
    LET row == run.rows[run.i]
        threw == generateAndStoreEmbeddingThrows(kind)
    IN  [run EXCEPT
            !.successCount = IF threw THEN @ ELSE @ + 1,
            !.failCount = IF threw THEN @ + 1 ELSE @,
            !.errors = IF threw THEN Append(@, [messageId |-> row.id, error |-> kind]) ELSE @,
            !.log = Append(@, [id |-> row.id, kind |-> kind, embedding |-> embedding]),
            !.embedding = {},
            !.i = @ + 1]

AbortsOnFailure(kind) == kind \in {"genfail", "storefail"}

\* does a settled item end the loop early?  Nothing in the loop body breaks,
\* returns or rethrows.
LoopAborts(kind) == FALSE

\* the requests of all the fetched items are started together, as
\* Promise.all(result.rows.map(...)) would start them
ContinueLoopAllAtOnce(run) ==
    IF run.i > Len(run.rows)
    THEN [run EXCEPT !.pc = "done", !.res = Append(@, BackfillResult(run))]
    ELSE [run EXCEPT !.pc = "provider", !.providerCalls = Len(run.rows)]

\* the loop from item run.i on, up to the next await that leaves the process
\* (a provider request), or to the response when no item is left
RECURSIVE ContinueLoop(_)
ContinueLoop(run) ==
    IF run.i > Len(run.rows)
    THEN [run EXCEPT !.pc = "done", !.res = Append(@, BackfillResult(run))]
    ELSE IF SkipsGeneration(run.rows[run.i].content)
    THEN ContinueLoop(ItemSettled(run, "skipped", {}))
    ELSE [run EXCEPT !.pc = "provider", !.providerCalls = @ + 1]

\* after item run.i settled with `kind`
AfterItem(run, kind, embedding) ==
    IF LoopAborts(kind)
    THEN [run EXCEPT !.pc = "done", !.res = Append(@, BackfillError)]
    ELSE ContinueLoop(ItemSettled(run, kind, embedding))

\* generateMissingEmbeddings up to its first await (the SELECT is issued)
generateMissingEmbeddings(userId, limitParam) ==
    /\ backfill.pc \in {"idle", "done"}
    /\ ops < MaxOps
    /\ ops' = ops + 1
    /\ backfill' = [BackfillIdle EXCEPT !.pc = "fetch", !.userId = userId,
                                        !.limitParam = limitParam,
                                        !.limit = EffectiveLimit(limitParam)]
    /\ UNCHANGED <<dbVars, search, tasks, save, del, upsertLog, call>>

\* the SELECT of the unembedded messages returns (or fails; LIMIT of a
\* negative number is an error of the store)
backfillFetchReturn(dbOk) ==
    /\ backfill.pc = "fetch"
    /\ IF ~dbOk \/ backfill.limit < 0
       THEN backfill' = [backfill EXCEPT !.pc = "done", !.res = Append(@, BackfillError)]
       ELSE LET rows == SelectUnembedded(backfill.userId, backfill.limit)
            IN  backfill' = ContinueLoop([backfill EXCEPT !.rows = rows, !.i = 1])
    /\ UNCHANGED <<dbVars, search, tasks, save, del, upsertLog, call, ops>>

\* generateEmbedding returns inside the item's generateAndStoreEmbedding
backfillProviderReturn(outcome) ==
    /\ backfill.pc = "provider"
    /\ LET embedding == AwaitedEmbedding(outcome)
       IN  backfill' =
                IF embedding = {}
                THEN AfterItem(backfill, "genfail", {})
                ELSE [backfill EXCEPT !.pc = "store", !.embedding = embedding]
    /\ UNCHANGED <<dbVars, search, tasks, save, del, upsertLog, call, ops>>

\* the INSERT of storeEmbedding returns inside the item's generateAndStoreEmbedding
backfillStoreReturn(dbOk) ==
    /\ backfill.pc = "store"
    /\ LET m == backfill.rows[backfill.i].id
           embedding == CHOOSE v \in backfill.embedding : TRUE
       IN  IF StoreApplies(dbOk, m)
           THEN /\ embeddings' = storeEmbedding(embeddings, m, embedding)
                /\ backfill' = AfterItem(backfill, "stored", {embedding})
           ELSE /\ embeddings' = embeddings
                /\ backfill' = AfterItem(backfill, "storefail", {})
    /\ UNCHANGED <<conversations, messages, nextConvId, nextMsgId, search, tasks,
                   save, del, upsertLog, call, ops>>

BackfillStep ==
    \/ \E u \in Users, l \in LimitParams : generateMissingEmbeddings(u, l)
    \/ \E ok \in BOOLEAN : backfillFetchReturn(ok)
    \/ \E o \in ProviderOutcomes : backfillProviderReturn(o)
    \/ \E ok \in BOOLEAN : backfillStoreReturn(ok)

(***************************************************************************)
(* saveChatMessages                                                        *)
(***************************************************************************)
\* the userId of the request bodies: a row of users, or an id no row has
SaveUsers == Users \cup {3}

\* the userMessage / aiMessage pairs of the request bodies
SavePairs ==
    { <<<<"a", "b", "c">>, <<"x", "B", "C", "y">>>>,
      <<<<"a", "b">>, <<"a", "b", "c">>>>,
      <<<<"\n", "a", "b">>, <<"x", "y", "z">>>> }

SaveIdle ==
    [pc |-> "idle", userId |-> 1, conversationId |-> {}, userMessage |-> <<>>,
     aiMessage |-> <<>>, currentConversationId |-> 0, userMessageId |-> 0,
     aiMessageId |-> 0, launched |-> {}, res |-> <<>>]

SaveFails(status) == [save EXCEPT !.pc = "done", !.res = Append(@, status)]

\* saveChatMessages up to its first await (the SELECT of the user is issued)
saveChatMessages(userId, conversationId, pair) ==
    /\ save.pc \in {"idle", "done"}
    /\ ops < MaxOps
    /\ ops' = ops + 1
    /\ save' = [SaveIdle EXCEPT !.pc = "userCheck", !.userId = userId,
                                !.conversationId = conversationId,
                                !.userMessage = pair[1], !.aiMessage = pair[2]]
    /\ UNCHANGED <<dbVars, search, backfill, tasks, del, upsertLog, call>>

\* "Validate user exists" returns; the INSERT of a new conversation or the
\* SELECT of the named one is issued
saveUserCheckReturn(dbOk) ==
    /\ save.pc = "userCheck"
    /\ save' =
        IF ~dbOk THEN SaveFails(500)
        ELSE IF save.userId \notin Users THEN SaveFails(404)
        ELSE IF save.conversationId = {} THEN [save EXCEPT !.pc = "convInsert"]
        ELSE [save EXCEPT !.pc = "convCheck",
                          !.currentConversationId = CHOOSE c \in save.conversationId : TRUE]
    /\ UNCHANGED <<dbVars, search, backfill, tasks, del, upsertLog, call, ops>>

\* INSERT INTO conversations ... RETURNING id returns; INSERT of the user message issued
saveConvInsertReturn(dbOk) ==
    /\ save.pc = "convInsert"
    /\ IF ~dbOk
       THEN /\ save' = SaveFails(500)
            /\ UNCHANGED <<conversations, nextConvId>>
       ELSE /\ conversations' = conversations \cup
                    {[id |-> nextConvId, user_id |-> save.userId]}
            /\ nextConvId' = nextConvId + 1
            /\ save' = [save EXCEPT !.pc = "userMsg", !.currentConversationId = nextConvId]
    /\ UNCHANGED <<messages, embeddings, nextMsgId, search, backfill, tasks, del,
                   upsertLog, call, ops>>

\* "Validate conversation belongs to user" returns; the UPDATE is issued
saveConvCheckReturn(dbOk) ==
    /\ save.pc = "convCheck"
    /\ save' =
        IF ~dbOk THEN SaveFails(500)
        ELSE IF ~\E c \in conversations :
                    c.id = save.currentConversationId /\ c.user_id = save.userId
        THEN SaveFails(403)
        ELSE [save EXCEPT !.pc = "convUpdate"]
    /\ UNCHANGED <<dbVars, search, backfill, tasks, del, upsertLog, call, ops>>

\* UPDATE conversations SET model_used ... returns; INSERT of the user message issued
saveConvUpdateReturn(dbOk) ==
    /\ save.pc = "convUpdate"
    /\ save' = IF ~dbOk THEN SaveFails(500) ELSE [save EXCEPT !.pc = "userMsg"]
    /\ UNCHANGED <<dbVars, search, backfill, tasks, del, upsertLog, call, ops>>

\* conversation_id INTEGER REFERENCES conversations(id)
ConversationExists(c) == \E r \in conversations : r.id = c

\* INSERT INTO messages RETURNING id, for sender and content
MessageRow(content) ==
    [id |-> nextMsgId, conversation_id |-> save.currentConversationId,
     content |-> content, created_at |-> nextMsgId]

\* "Save user message" returns (error 23503 is answered 404); INSERT of the AI message issued
saveUserMsgReturn(dbOk) ==
    /\ save.pc = "userMsg"
    /\ IF ~dbOk \/ ~ConversationExists(save.currentConversationId)
       THEN /\ save' = SaveFails(IF dbOk THEN 404 ELSE 500)
            /\ UNCHANGED <<messages, nextMsgId>>
       ELSE /\ messages' = messages \cup {MessageRow(save.userMessage)}
            /\ nextMsgId' = nextMsgId + 1
            /\ save' = [save EXCEPT !.pc = "aiMsg", !.userMessageId = nextMsgId]
    /\ UNCHANGED <<conversations, embeddings, nextConvId, search, backfill, tasks, del,
                   upsertLog, call, ops>>

\* "Save AI message" returns; the UPDATE of the conversation stats is issued
saveAiMsgReturn(dbOk) ==
    /\ save.pc = "aiMsg"
    /\ IF ~dbOk \/ ~ConversationExists(save.currentConversationId)
       THEN /\ save' = SaveFails(IF dbOk THEN 404 ELSE 500)
            /\ UNCHANGED <<messages, nextMsgId>>
       ELSE /\ messages' = messages \cup {MessageRow(save.aiMessage)}
            /\ nextMsgId' = nextMsgId + 1
            /\ save' = [save EXCEPT !.pc = "stats", !.aiMessageId = nextMsgId]
    /\ UNCHANGED <<conversations, embeddings, nextConvId, search, backfill, tasks, del,
                   upsertLog, call, ops>>

LaunchedForUserMessage(s) == {s.userMessageId}

\* the message ids generateAndStoreEmbedding is called for, once the UPDATE of
\* the conversation stats has returned without error
LaunchedFor(s) == {s.userMessageId, s.aiMessageId}

\* "Update conversation stats" returns: both generateAndStoreEmbedding calls are
\* started (each runs to its first await) and the response is sent
saveStatsReturn(dbOk) ==
    /\ save.pc = "stats"
    /\ IF ~dbOk
       THEN /\ save' = SaveFails(500)
            /\ tasks' = tasks
       ELSE /\ save' = [save EXCEPT !.pc = "done", !.res = Append(@, 200),
                                     !.launched = LaunchedFor(save)]
            /\ LET started == CallsStarted(
                        [m \in LaunchedFor(save) |->
                            IF m = save.userMessageId THEN save.userMessage
                            ELSE save.aiMessage])
               IN  tasks' = [m \in DOMAIN tasks \cup DOMAIN started |->
                                IF m \in DOMAIN started THEN started[m] ELSE tasks[m]]
    /\ UNCHANGED <<dbVars, search, backfill, del, upsertLog, call, ops>>

SaveStep ==
    \/ \E u \in SaveUsers, c \in {{}, {1}}, p \in SavePairs :
            saveChatMessages(u, c, p)
    \/ \E ok \in BOOLEAN : saveUserCheckReturn(ok)
    \/ \E ok \in BOOLEAN : saveConvInsertReturn(ok)
    \/ \E ok \in BOOLEAN : saveConvCheckReturn(ok)
    \/ \E ok \in BOOLEAN : saveConvUpdateReturn(ok)
    \/ \E ok \in BOOLEAN : saveUserMsgReturn(ok)
    \/ \E ok \in BOOLEAN : saveAiMsgReturn(ok)
    \/ \E ok \in BOOLEAN : saveStatsReturn(ok)

(***************************************************************************)
(* deleteConversation                                                      *)
(***************************************************************************)
DelIdle == [pc |-> "idle", conversationId |-> 0, userId |-> 1, res |-> <<>>]

DelFails == [del EXCEPT !.pc = "done", !.res = Append(@, 500)]

MessagesOf(conversationId) == {m \in messages : m.conversation_id = conversationId}

\* deleteConversation up to its first await (DELETE FROM embeddings is issued)
deleteConversation(conversationId, userId) ==
    /\ del.pc \in {"idle", "done"}
    /\ ops < MaxOps
    /\ ops' = ops + 1
    /\ del' = [DelIdle EXCEPT !.pc = "embeddings", !.conversationId = conversationId,
                              !.userId = userId]
    /\ UNCHANGED <<dbVars, search, backfill, tasks, save, upsertLog, call>>

\* DELETE FROM embeddings WHERE message_id IN (SELECT id FROM messages WHERE
\* conversation_id = $1) returns; DELETE FROM messages is issued
delEmbeddingsReturn(dbOk) ==
    /\ del.pc = "embeddings"
    /\ IF ~dbOk
       THEN del' = DelFails /\ embeddings' = embeddings
       ELSE /\ embeddings' = {e \in embeddings :
                    \A m \in MessagesOf(del.conversationId) : m.id # e.message_id}
            /\ del' = [del EXCEPT !.pc = "messages"]
    /\ UNCHANGED <<conversations, messages, nextConvId, nextMsgId, search, backfill,
                   tasks, save, upsertLog, call, ops>>

\* DELETE FROM messages WHERE conversation_id = $1 returns; DELETE FROM
\* conversations is issued
delMessagesReturn(dbOk) ==
    /\ del.pc = "messages"
    /\ IF ~dbOk
       THEN del' = DelFails /\ UNCHANGED <<messages, embeddings>>
       ELSE /\ messages' = messages \ MessagesOf(del.conversationId)
            /\ embeddings' = CascadeEmbeddings(embeddings, messages')
            /\ del' = [del EXCEPT !.pc = "conversation"]
    /\ UNCHANGED <<conversations, nextConvId, nextMsgId, search, backfill, tasks, save,
                   upsertLog, call, ops>>

\* DELETE FROM conversations WHERE id = $1 AND user_id = $2 returns; the
\* messages of a deleted conversation, and their embeddings, go with it
delConversationReturn(dbOk) ==
    /\ del.pc = "conversation"
    /\ IF ~dbOk
       THEN del' = DelFails /\ UNCHANGED <<conversations, messages, embeddings>>
       ELSE /\ conversations' = {c \in conversations :
                    ~(c.id = del.conversationId /\ c.user_id = del.userId)}
            /\ messages' = {m \in messages :
                    \E c \in conversations' : c.id = m.conversation_id}
            /\ embeddings' = CascadeEmbeddings(embeddings, messages')
            /\ del' = [del EXCEPT !.pc = "done", !.res = Append(@, 200)]
    /\ UNCHANGED <<nextConvId, nextMsgId, search, backfill, tasks, save, upsertLog, call,
                   ops>>

DeleteStep ==
    \/ \E c \in 1 .. 2, u \in Users : deleteConversation(c, u)
    \/ \E ok \in BOOLEAN : delEmbeddingsReturn(ok)
    \/ \E ok \in BOOLEAN : delMessagesReturn(ok)
    \/ \E ok \in BOOLEAN : delConversationReturn(ok)

(***************************************************************************)
(* Direct calls of the helpers generateEmbedding and cosineSimilarity.     *)
(* call = [fn, pc, text, vecA, vecB, requests, raised, result,             *)
(* similarity, aboveOne]: requests counts the fetch() calls the call has   *)
(* made; a behaviour makes one direct call.                                *)
(***************************************************************************)
CallIdle ==
    [fn |-> "none", pc |-> "idle", text |-> {}, vecA |-> {}, vecB |-> {},
     requests |-> 0, raised |-> FALSE, result |-> {}, similarity |-> Zero,
     aboveOne |-> FALSE]

\* the texts generateEmbedding is called with
TextPool ==
    { {}, {<<>>}, {<<"a", "b">>}, {<<" ", "a", "b", " ">>}, {<<"\n", "a", "b">>},
      {<<"a", "b", "c">>}, {<<" ", "a", "b", "c">>}, {<<"x", "B", "C", "y">>} }

\* generateEmbedding(text) up to its return or its await of fetch()
generateEmbeddingCall(text) ==
    /\ call.pc = "idle"
    /\ call' = IF TextTooShort(text)
               THEN [CallIdle EXCEPT !.fn = "generateEmbedding", !.pc = "done",
                                     !.text = text]
               ELSE [CallIdle EXCEPT !.fn = "generateEmbedding", !.pc = "provider",
                                     !.text = text, !.requests = 1]
    /\ UNCHANGED <<dbVars, search, backfill, tasks, save, del, upsertLog, ops>>

\* fetch() ends in `outcome`; generateEmbedding returns
generateEmbeddingReturn(outcome) ==
    /\ call.pc = "provider"
    /\ call' = IF generateEmbeddingThrows(outcome)
               THEN [call EXCEPT !.pc = "done", !.raised = TRUE]
               ELSE [call EXCEPT !.pc = "done",
                                 !.result = generateEmbeddingResult(outcome)]
    /\ UNCHANGED <<dbVars, search, backfill, tasks, save, del, upsertLog, ops>>

\* the components of the vectors cosineSimilarity is called with
Components == {-1, 0, 1}

\* vectors of at most MaxDim components, and null / undefined
Vectors == UNION {[1 .. n -> Components] : n \in 0 .. MaxDim}
MaybeVectors == {{}} \cup {{v} : v \in Vectors}

\* cosineSimilarity(vecA, vecB): synchronous, returns in the same step
cosineSimilarityCall(vecA, vecB) ==
    /\ call.pc = "idle"
    /\ call' = [CallIdle EXCEPT !.fn = "cosineSimilarity", !.pc = "done",
                                !.vecA = vecA, !.vecB = vecB,
                                !.similarity = cosineSimilarity(vecA, vecB),
                                !.aboveOne = cosineSimilarityAboveOne(vecA, vecB)]
    /\ UNCHANGED <<dbVars, search, backfill, tasks, save, del, upsertLog, ops>>

EmbedCallStep ==
    \/ \E t \in TextPool : generateEmbeddingCall(t)
    \/ \E o \in ProviderOutcomes : generateEmbeddingReturn(o)

HelperStep ==
    \/ EmbedCallStep
    \/ \E a \in MaybeVectors, b \in MaybeVectors : cosineSimilarityCall(a, b)

(***************************************************************************)
(* The system: every request handler and every detached task, interleaved  *)
(* at their awaits, from the empty tables.                                 *)
(***************************************************************************)
NoTasks == CallsStarted([m \in {} |-> <<>>])

Handlers ==
    /\ search = SearchIdle
    /\ backfill = BackfillIdle
    /\ save = SaveIdle
    /\ del = DelIdle
    /\ tasks = NoTasks
    /\ upsertLog = <<>>
    /\ call = CallIdle

Init ==
    /\ conversations = {}
    /\ messages = {}
    /\ embeddings = {}
    /\ nextConvId = 1
    /\ nextMsgId = 1
    /\ ops = 0
    /\ Handlers

Next == SaveStep \/ TaskStep \/ SearchStep \/ BackfillStep \/ DeleteStep

Spec == Init /\ [][Next]_vars

(***************************************************************************)
(* Scenarios: one request served against tables that earlier saves and     *)
(* their tasks have left behind.                                           *)
(***************************************************************************)
\* the embeddings rows the tasks of messages 1..n leave: f[m] is {} (the task
\* failed or was skipped) or {v} (it stored v)
EmbeddingRows(f) ==
    {[id |-> m, message_id |-> m, embedding_vector |-> JSONstringify(v),
      model_name |-> EMBEDDING_MODEL] : <<m, v>> \in
        {<<m2, v2>> \in (DOMAIN f) \X VecPool : v2 \in f[m2]}}

\* the messages rows n/2 saves leave, pair j in conversation convOf[2j]
MessageRows(n, convOf, contentOf) ==
    {[id |-> i, conversation_id |-> convOf[i], content |-> contentOf[i],
      created_at |-> i] : i \in 1 .. n}

SearchContents ==
    <<  <<"a", "b", "c">>, <<"x", "B", "C", "y">>,
        <<"a", "b">>, <<"a", "b", "c">>,
        <<"a", "b", "c">>, <<"x", "y", "z">>  >>

\* three saves: two new conversations of user 1, one of user 2
InitSearch ==
    /\ conversations = {[id |-> 1, user_id |-> 1], [id |-> 2, user_id |-> 1],
                        [id |-> 3, user_id |-> 2]}
    /\ messages = MessageRows(6, <<1, 1, 2, 2, 3, 3>>, SearchContents)
    /\ \E f \in [1 .. 4 -> {{}} \cup {{v} : v \in VecPool}],
          g \in [5 .. 5 -> {{}, {<<1, 0>>}}] :
            embeddings = EmbeddingRows(f) \cup EmbeddingRows(g)
    /\ nextConvId = 4
    /\ nextMsgId = 7
    /\ ops = MaxOps - 1
    /\ Handlers

NextSearch == SearchStep

SpecSearch == InitSearch /\ [][NextSearch]_vars

\* a stored text cut short in the store (corrupt data): JSON.parse throws on it
Truncated(text) == SubSeq(text, 1, Len(text) - 1)

\* the tables of InitSearch where the rows of messages 1 to 3 are missing,
\* intact, or cut short after storeEmbedding wrote them
InitCorrupt ==
    /\ conversations = {[id |-> 1, user_id |-> 1], [id |-> 2, user_id |-> 1],
                        [id |-> 3, user_id |-> 2]}
    /\ messages = MessageRows(6, <<1, 1, 2, 2, 3, 3>>, SearchContents)
    /\ \E f \in [1 .. 3 -> {{}} \cup {{v} : v \in VecPool}], cut \in SUBSET (1 .. 3) :
            embeddings = {IF e.message_id \in cut
                          THEN [e EXCEPT !.embedding_vector = Truncated(@)]
                          ELSE e : e \in EmbeddingRows(f)}
    /\ nextConvId = 4
    /\ nextMsgId = 7
    /\ ops = MaxOps - 1
    /\ Handlers

SpecCorrupt == InitCorrupt /\ [][NextSearch]_vars

\* the same search while the store answers every query; the provider request
\* ends (answer, error or the 30 s timeout of fetch) and the store answers, so
\* a search that waits is eventually resumed
SearchReturnsUp ==
    \/ \E o \in ProviderOutcomes : searchEmbedReturn(o)
    \/ searchFetchReturn(TRUE)
    \/ performKeywordSearch(TRUE)

NextSearchUp ==
    \/ \E u \in Users, q \in QueryPool : searchMessages(u, q)
    \/ SearchReturnsUp

\* the tables of InitSearch with at most the first save's messages embedded
InitSearchUp ==
    /\ conversations = {[id |-> 1, user_id |-> 1], [id |-> 2, user_id |-> 1],
                        [id |-> 3, user_id |-> 2]}
    /\ messages = MessageRows(6, <<1, 1, 2, 2, 3, 3>>, SearchContents)
    /\ \E f \in [1 .. 2 -> {{}, {<<1, 0>>}, {<<0, 1>>}}] : embeddings = EmbeddingRows(f)
    /\ nextConvId = 4
    /\ nextMsgId = 7
    /\ ops = MaxOps - 1
    /\ Handlers

SpecSearchUp == InitSearchUp /\ [][NextSearchUp]_vars /\ WF_vars(SearchReturnsUp)

\* many saves by user 1 into conversations 1 and 2, every message embedded:
\* message i holds the (i * step + off)-th vector of the provider's
RankVecs == <<  <<1, 0>>, <<1, 1>>, <<0, 1>>, <<1, 1>>, <<1, 0>>  >>

InitRank ==
    /\ conversations = {[id |-> 1, user_id |-> 1], [id |-> 2, user_id |-> 1]}
    /\ \E n \in (TopK - 1) .. (TopK + MaxOver), step \in 1 .. 3, off \in 0 .. 4 :
        /\ messages = MessageRows(n, [i \in 1 .. n |-> 1 + ((i \div 2) % 2)],
                                  [i \in 1 .. n |-> <<"a", "b", "c">>])
        /\ embeddings = EmbeddingRows(
                [i \in 1 .. n |-> {RankVecs[1 + ((i * step + off) % 5)]}])
        /\ nextMsgId = n + 1
    /\ nextConvId = 3
    /\ ops = MaxOps - 1
    /\ Handlers

SpecRank == InitRank /\ [][NextSearch]_vars

\* saves by user 1 into conversation 1 whose tasks all failed: n messages that
\* the backfill query selects (of an odd n, the last AI message is too short)
InitBackfill ==
    /\ conversations = {[id |-> 1, user_id |-> 1], [id |-> 2, user_id |-> 2]}
    /\ \E n \in 0 .. (MaxErrors + MaxOverErrors) :
        /\ messages = MessageRows(n + (n % 2), [i \in 1 .. n + 1 |-> 1],
                [i \in 1 .. n + 1 |-> IF i > n THEN <<"a", "b">> ELSE <<"a", "b", "c">>])
        /\ nextMsgId = n + (n % 2) + 1
    /\ embeddings = {}
    /\ nextConvId = 3
    /\ ops = MaxOps - 1
    /\ Handlers

NextBackfill == BackfillStep

SpecBackfill == InitBackfill /\ [][NextBackfill]_vars

\* the client repeats its backfill request once the last one was answered:
\* the same user and the same limit parameter
generateMissingEmbeddingsAgain ==
    /\ backfill.pc = "done"
    /\ backfill' = [BackfillIdle EXCEPT !.pc = "fetch", !.userId = backfill.userId,
                                        !.limitParam = backfill.limitParam,
                                        !.limit = backfill.limit]
    /\ UNCHANGED <<dbVars, search, tasks, save, del, upsertLog, call, ops>>

\* saves by user 1 whose detached tasks all failed: up to MaxBacklog
\* unembedded messages, every one of them long enough
InitRepeat ==
    /\ conversations = {[id |-> 1, user_id |-> 1], [id |-> 2, user_id |-> 2]}
    /\ \E n \in 1 .. MaxBacklog :
        /\ messages = MessageRows(n, [i \in 1 .. n |-> 1],
                                  [i \in 1 .. n |-> <<"a", "b", "c">>])
        /\ nextMsgId = n + 1
    /\ embeddings = {}
    /\ nextConvId = 3
    /\ ops = MaxOps - 1
    /\ Handlers

NextRepeat == BackfillStep \/ generateMissingEmbeddingsAgain

\* the requests keep coming and every await returns; the SELECT of the
\* unembedded messages is answered again and again
SpecRepeat ==
    /\ InitRepeat /\ [][NextRepeat]_vars
    /\ WF_vars(NextRepeat)
    /\ SF_vars(backfillFetchReturn(TRUE))

\* direct calls of storeEmbedding, one after the other (each awaited before
\* the next), against the messages of one save
storeEmbeddingCall(messageId, embedding, dbOk) ==
    /\ Len(upsertLog) < MaxUpserts
    /\ LET applied == StoreApplies(dbOk, messageId)
       IN  /\ embeddings' = IF applied
                            THEN storeEmbedding(embeddings, messageId, embedding)
                            ELSE embeddings
           /\ upsertLog' = Append(upsertLog,
                    [messageId |-> messageId, embedding |-> embedding, returned |-> applied])
    /\ UNCHANGED <<conversations, messages, nextConvId, nextMsgId, search, backfill,
                   tasks, save, del, call, ops>>

InitUpsert ==
    /\ conversations = {[id |-> 1, user_id |-> 1]}
    /\ messages = MessageRows(2, <<1, 1>>, SearchContents)
    /\ embeddings = {}
    /\ nextConvId = 2
    /\ nextMsgId = 3
    /\ ops = 0
    /\ Handlers

NextUpsert ==
    \E m \in 1 .. 3, v \in VecPool \cup {<<>>}, ok \in BOOLEAN : storeEmbeddingCall(m, v, ok)

SpecUpsert == InitUpsert /\ [][NextUpsert]_vars

\* a save by user 1 has just answered: its two messages are stored and the
\* two detached tasks are waiting for the provider, while backfill runs of
\* either user are served one after the other
InitRace ==
    /\ conversations = {[id |-> 1, user_id |-> 1]}
    /\ messages = MessageRows(2, <<1, 1>>, SearchContents)
    /\ embeddings = {}
    /\ nextConvId = 2
    /\ nextMsgId = 3
    /\ ops = 0
    /\ search = SearchIdle
    /\ backfill = BackfillIdle
    /\ save = [SaveIdle EXCEPT !.pc = "done", !.userMessage = SearchContents[1],
                               !.aiMessage = SearchContents[2],
                               !.currentConversationId = 1, !.userMessageId = 1,
                               !.aiMessageId = 2, !.launched = {1, 2},
                               !.res = <<200>>]
    /\ del = DelIdle
    /\ tasks = CallsStarted([m \in 1 .. 2 |-> SearchContents[m]])
    /\ upsertLog = <<>>
    /\ call = CallIdle

NextRace == TaskStep \/ BackfillStep

SpecRace == InitRace /\ [][NextRace]_vars

\* the same two detached tasks of user 1's conversation 1, next to a
\* conversation of user 2 whose message is embedded, while deleteConversation
\* and backfill requests of either user are served
InitDeleteRace ==
    /\ conversations = {[id |-> 1, user_id |-> 1], [id |-> 2, user_id |-> 2]}
    /\ messages = MessageRows(3, <<1, 1, 2>>, SearchContents)
    /\ embeddings = EmbeddingRows([m \in 1 .. 3 |-> IF m = 3 THEN {<<1, 0>>} ELSE {}])
    /\ nextConvId = 3
    /\ nextMsgId = 4
    /\ ops = MaxOps - 2
    /\ search = SearchIdle
    /\ backfill = BackfillIdle
    /\ save = [SaveIdle EXCEPT !.pc = "done", !.userMessage = SearchContents[1],
                               !.aiMessage = SearchContents[2],
                               !.currentConversationId = 1, !.userMessageId = 1,
                               !.aiMessageId = 2, !.launched = {1, 2},
                               !.res = <<200>>]
    /\ del = DelIdle
    /\ tasks = CallsStarted([m \in 1 .. 2 |-> SearchContents[m]])
    /\ upsertLog = <<>>
    /\ call = CallIdle

NextDeleteRace == TaskStep \/ BackfillStep \/ DeleteStep

SpecDeleteRace == InitDeleteRace /\ [][NextDeleteRace]_vars

\* user 1 has opened conversation 1; saves are served one after the other
\* while the detached calls of the earlier ones run
InitSave ==
    /\ conversations = {[id |-> 1, user_id |-> 1]}
    /\ messages = {}
    /\ embeddings = {}
    /\ nextConvId = 2
    /\ nextMsgId = 1
    /\ ops = MaxOps - 2
    /\ Handlers

NextSave == SaveStep \/ TaskStep

SpecSave == InitSave /\ [][NextSave]_vars

\* an earlier save of user 1 left messages 1 and 2, embedded or not; a second
\* save into the same conversation has just answered: messages 3 and 4 are
\* stored and their detached calls wait for the provider, while a search is served
InitSaveSearch ==
    /\ conversations = {[id |-> 1, user_id |-> 1], [id |-> 2, user_id |-> 2]}
    /\ \E pair \in SavePairs, f \in [1 .. 2 -> {{}} \cup {{v} : v \in VecPool}] :
        /\ messages = MessageRows(4, <<1, 1, 1, 1>>,
                            <<SearchContents[1], SearchContents[6], pair[1], pair[2]>>)
        /\ embeddings = EmbeddingRows(f)
        /\ save = [SaveIdle EXCEPT !.pc = "done", !.userMessage = pair[1],
                                   !.aiMessage = pair[2],
                                   !.conversationId = {1},
                                   !.currentConversationId = 1, !.userMessageId = 3,
                                   !.aiMessageId = 4, !.launched = {3, 4},
                                   !.res = <<200>>]
        /\ tasks = CallsStarted([m \in 3 .. 4 |-> pair[m - 2]])
    /\ nextConvId = 3
    /\ nextMsgId = 5
    /\ ops = MaxOps - 1
    /\ search = SearchIdle
    /\ backfill = BackfillIdle
    /\ del = DelIdle
    /\ upsertLog = <<>>
    /\ call = CallIdle

NextSaveSearch == TaskStep \/ SearchStep

SpecSaveSearch == InitSaveSearch /\ [][NextSaveSearch]_vars

\* a save of user 1 has just answered: message 1 (three characters, a line
\* break among them) and message 2 are stored and the detached calls were
\* started; one more save or backfill run is served, and generateEmbedding
\* is called directly
InitShort ==
    /\ conversations = {[id |-> 1, user_id |-> 1]}
    /\ messages = MessageRows(2, <<1, 1>>, << <<"\n", "a", "b">>, <<"x", "y", "z">> >>)
    /\ embeddings = {}
    /\ nextConvId = 2
    /\ nextMsgId = 3
    /\ ops = MaxOps - 1
    /\ search = SearchIdle
    /\ backfill = BackfillIdle
    /\ save = [SaveIdle EXCEPT !.pc = "done", !.userMessage = <<"\n", "a", "b">>,
                               !.aiMessage = <<"x", "y", "z">>,
                               !.conversationId = {1},
                               !.currentConversationId = 1, !.userMessageId = 1,
                               !.aiMessageId = 2, !.launched = {1, 2},
                               !.res = <<200>>]
    /\ del = DelIdle
    /\ tasks = CallsStarted(<< <<"\n", "a", "b">>, <<"x", "y", "z">> >>)
    /\ upsertLog = <<>>
    /\ call = CallIdle

NextShort == SaveStep \/ TaskStep \/ BackfillStep \/ EmbedCallStep

SpecShort == InitShort /\ [][NextShort]_vars

\* direct calls of the helpers, one after the other
InitHelpers ==
    /\ conversations = {}
    /\ messages = {}
    /\ embeddings = {}
    /\ nextConvId = 1
    /\ nextMsgId = 1
    /\ ops = 0
    /\ Handlers

NextHelpers == HelperStep

SpecHelpers == InitHelpers /\ [][NextHelpers]_vars

(***************************************************************************)
(* Properties                                                              *)
(***************************************************************************)
SearchDone == search.pc = "done" /\ Len(search.res) = 1
SearchRes == search.res[1]

\* the query is absent or trims to fewer than 3 characters
ShortQuery(query) == query = {} \/ \A s \in query : Len(trim(s)) < 3

\* the stored embeddings of the user's messages, read off the tables
UserEmbeddings(userId) ==
    {e \in embeddings : \E m \in messages, c \in conversations :
        e.message_id = m.id /\ m.conversation_id = c.id /\ c.user_id = userId}

\* the embedding row scores at least 0.3 against the query embedding
RowPasses(e, queryEmbedding) ==
    /\ JSONparse(e.embedding_vector) # {}
    /\ SimGE(cosineSimilarity(queryEmbedding, JSONparse(e.embedding_vector)),
             [num |-> 9, den |-> 100])

\* all hits of a response, group by group
GroupedHits(res) ==
    UNION {{g.messages[i] : i \in 1 .. Len(g.messages)} :
            g \in {res.conversations[j] : j \in 1 .. Len(res.conversations)}}

\* C1: a search whose query is absent or trims to fewer than 3 characters ends
\* with the validation error (400) and has made no provider request and no
\* store query.
C1_ShortQueryRejectedBeforeAnyCall ==
    (search.pc # "idle" /\ ShortQuery(search.query)) =>
        /\ search.pc = "done"
        /\ Len(search.res) = 1
        /\ search.res[1].status = 400
        /\ search.providerCalls = 0
        /\ search.storeQueries = 0

C1_Witness ==
    /\ SearchDone
    /\ search.query = {<<" ", "a", "b", " ">>}
    /\ SearchRes.status = 400

\* C2: a semantic response holds only hits of similarity >= 0.3 and is never
\* empty; a successful search that read the store while no stored embedding of
\* the user reached 0.3 against the query embedding is answered by the keyword
\* search.
C2_SemanticHitsPassThresholdElseKeyword ==
    SearchDone =>
        /\ SearchRes.searchType = "semantic" =>
            /\ SearchRes.status = 200
            /\ SearchRes.totalMessages > 0
            /\ \A h \in GroupedHits(SearchRes) :
                    h.similarity.num * 100 >= 9 * h.similarity.den
        /\ ( /\ SearchRes.status = 200
             /\ search.fetched >= 0
             /\ \A e \in UserEmbeddings(search.userId) :
                    ~RowPasses(e, search.queryEmbedding) )
            => SearchRes.searchType = "keyword"

C2_Witness ==
    /\ SearchDone
    /\ SearchRes.searchType = "keyword"
    /\ search.fetched > 0
    /\ UserEmbeddings(search.userId) # {}
    /\ \A e \in UserEmbeddings(search.userId) : ~RowPasses(e, search.queryEmbedding)

\* C3: while the user has no stored embedding, every successful search is a
\* keyword response, whether the query embedding was generated or not.
C3_NoEmbeddingsMeansKeyword ==
    (SearchDone /\ SearchRes.status = 200 /\ UserEmbeddings(search.userId) = {})
        => SearchRes.searchType = "keyword"

C3_Witness ==
    /\ SearchDone
    /\ SearchRes.status = 200
    /\ SearchRes.searchType = "keyword"
    /\ search.queryEmbedding # {}
    /\ search.fetched = 0
    /\ UserEmbeddings(search.userId) = {}
    /\ embeddings # {}

\* C4: the hits of a semantic response, in ranking order, are sorted by
\* non-increasing similarity and number at most 50, and no stored embedding of
\* the user that passes the threshold and was left out scores higher than a
\* hit that was kept.
C4_RankedSortedCappedBest ==
    (SearchDone /\ SearchRes.searchType = "semantic") =>
        LET hits == SearchRes.ranked
            kept == {hits[i].id : i \in 1 .. Len(hits)}
        IN  /\ Len(hits) <= 50
            /\ \A i \in 1 .. Len(hits) - 1 :
                    hits[i].similarity.num * hits[i + 1].similarity.den
                        >= hits[i + 1].similarity.num * hits[i].similarity.den
            /\ \A e \in UserEmbeddings(search.userId) :
                    (e.message_id \notin kept /\ RowPasses(e, search.queryEmbedding)) =>
                        /\ Len(hits) = 50
                        /\ \A i \in 1 .. Len(hits) :
                            SimGE(hits[i].similarity,
                                  cosineSimilarity(search.queryEmbedding,
                                                   JSONparse(e.embedding_vector)))

C4_Witness ==
    /\ SearchDone
    /\ SearchRes.searchType = "semantic"
    /\ Len(SearchRes.ranked) = 50
    /\ Cardinality({e \in UserEmbeddings(search.userId) :
                        RowPasses(e, search.queryEmbedding)}) > 50
    /\ SimGT(SearchRes.ranked[1].similarity, SearchRes.ranked[50].similarity)
    /\ \E e \in UserEmbeddings(search.userId) :
            /\ RowPasses(e, search.queryEmbedding)
            /\ \A i \in 1 .. 50 : SearchRes.ranked[i].id # e.message_id

\* the conversation ids of the hit list in the order of their first hit
RECURSIVE FirstSeenOrder(_)
FirstSeenOrder(hits) ==
    IF hits = <<>> THEN <<>>
    ELSE LET c == hits[1].conversationId
         IN  <<c>> \o FirstSeenOrder(SelectSeq(Tail(hits), LAMBDA h : h.conversationId # c))

\* C5: in a semantic or keyword response the groups appear in the order in
\* which each conversation's first hit is met in the ordered hit list.
C5_GroupsInFirstHitOrder ==
    (SearchDone /\ SearchRes.status = 200) =>
        [i \in 1 .. Len(SearchRes.conversations) |-> SearchRes.conversations[i].conversationId]
            = FirstSeenOrder(SearchRes.ranked)

\* the calls of storeEmbedding for message m that returned true, in call order
UpsertsOf(m) == SelectSeq(upsertLog, LAMBDA c : c.messageId = m /\ c.returned)

\* C6: after storeEmbedding has returned true for a message one or more times
\* in sequence, the table holds exactly one row for that message; its vector
\* text reads back as the vector of the last call and its model name is the
\* current model.
C6_SequentialUpsertLastWins ==
    \A m \in 1 .. 3 :
        UpsertsOf(m) # <<>> =>
            LET last == UpsertsOf(m)[Len(UpsertsOf(m))]
                rows == {e \in embeddings : e.message_id = m}
            IN  /\ Cardinality(rows) = 1
                /\ \A e \in rows :
                    /\ JSONparse(e.embedding_vector) = {last.embedding}
                    /\ e.model_name = "nomic-embed-text:latest"

C6_Witness ==
    /\ Len(UpsertsOf(1)) = 2
    /\ UpsertsOf(1)[1].embedding = <<1, 0>>
    /\ UpsertsOf(1)[2].embedding = <<0, 1>>
    /\ \E e \in embeddings : e.message_id = 1 /\ JSONparse(e.embedding_vector) = {<<0, 1>>}

\* an INSERT of storeEmbedding for message m carrying v is waiting for the store
UpsertInFlight(m, v) ==
    \/ m \in DOMAIN tasks /\ tasks[m].pc = "store" /\ tasks[m].embedding = {v}
    \/ /\ backfill.pc = "store"
       /\ backfill.rows[backfill.i].id = m
       /\ backfill.embedding = {v}

AtMostOneRowPerMessage ==
    \A e1, e2 \in embeddings : e1.message_id = e2.message_id => e1 = e2

\* C7: whatever the interleaving of the detached tasks and the backfill runs
\* that upsert the same messages, there is at most one embedding row per
\* message, and every change of the table is one upsert that was in flight:
\* the row of its message then holds exactly the vector that upsert carried
\* (the last one the store applied), and no other row changes.
C7_ConcurrentUpsertsOneRowLastWins ==
    /\ []AtMostOneRowPerMessage
    /\ [][embeddings' # embeddings =>
            \E m \in 1 .. 2, v \in VecPool :
                /\ UpsertInFlight(m, v)
                /\ {e \in embeddings' : e.message_id # m}
                        = {e \in embeddings : e.message_id # m}
                /\ \E e \in embeddings' :
                    /\ e.message_id = m
                    /\ JSONparse(e.embedding_vector) = {v}
                    /\ e.model_name = "nomic-embed-text:latest"]_vars

\* the backfill run stored v1 for a message and the task of the same message
\* stored another vector after it
C7_Witness ==
    /\ AtMostOneRowPerMessage
    /\ \E j \in 1 .. Len(backfill.log), e \in embeddings :
        /\ backfill.log[j].kind = "stored"
        /\ e.message_id = backfill.log[j].id
        /\ JSONparse(e.embedding_vector) # backfill.log[j].embedding
    /\ tasks = NoTasks

BackfillDone == backfill.pc = "done" /\ Len(backfill.res) = 1
BackfillRes == backfill.res[1]

KindCount(kinds) ==
    Cardinality({j \in 1 .. Len(backfill.log) : backfill.log[j].kind \in kinds})

\* C8: a backfill run asked for limit L that returns a result attempted
\* totalProcessed messages, at most L; successCount + failCount equals
\* totalProcessed; and errors has at most 5 entries.
C8_BackfillBoundedByLimit ==
    (BackfillDone /\ BackfillRes.status = 200) =>
        /\ Len(backfill.log) = BackfillRes.totalProcessed
        /\ \A L \in backfill.limitParam : L >= 0 => BackfillRes.totalProcessed <= L
        /\ backfill.limitParam = {} => BackfillRes.totalProcessed <= 100
        /\ BackfillRes.successCount + BackfillRes.failCount = BackfillRes.totalProcessed
        /\ Len(BackfillRes.errors) <= 5

\* C9: in the result of a backfill run, failCount is the number of messages
\* whose generation or upsert failed, each of them is in errors (up to 5), and
\* successCount is the number of messages generated and stored.
C9_BackfillCountsFailures ==
    (BackfillDone /\ BackfillRes.status = 200) =>
        /\ BackfillRes.failCount = KindCount({"genfail", "storefail"})
        /\ BackfillRes.successCount = KindCount({"stored"})
        /\ Len(BackfillRes.errors) =
                IF KindCount({"genfail", "storefail"}) < 5
                THEN KindCount({"genfail", "storefail"}) ELSE 5

\* C10: a backfill run that fetched messages ends with a result, not an error,
\* having attempted every fetched message in the fetched order whatever failed
\* on the way; and at every point of the run the embedding stored for an
\* earlier item is still in the table, unchanged.
C10_BackfillFailuresIsolated ==
    /\ (backfill.pc = "done" /\ backfill.rows # <<>>) =>
            /\ Len(backfill.res) = 1
            /\ backfill.res[1].status = 200
            /\ backfill.res[1].totalProcessed = Len(backfill.rows)
            /\ [j \in 1 .. Len(backfill.log) |-> backfill.log[j].id]
                    = [j \in 1 .. Len(backfill.rows) |-> backfill.rows[j].id]
    /\ \A j \in 1 .. Len(backfill.log) :
            backfill.log[j].kind = "stored" =>
                \E e \in embeddings :
                    /\ e.message_id = backfill.log[j].id
                    /\ JSONparse(e.embedding_vector) = backfill.log[j].embedding

C10_Witness ==
    /\ BackfillDone
    /\ BackfillRes.status = 200
    /\ Len(backfill.log) >= 4
    /\ backfill.log[1].kind = "stored"
    /\ backfill.log[2].kind = "genfail"
    /\ backfill.log[3].kind = "storefail"
    /\ backfill.log[4].kind = "stored"
    /\ \E e \in embeddings : e.message_id = backfill.log[1].id
    /\ \E e \in embeddings : e.message_id = backfill.log[4].id

(***************************************************************************)
(* saveChatMessages and its detached calls                                 *)
(***************************************************************************)
SaveAnswered == save.pc = "done" /\ Len(save.res) = 1

\* the row of message id `m` holding `content` in the conversation of the save
SavedRow(msgs, m, content) ==
    \E r \in msgs : r.id = m /\ r.content = content
                                /\ r.conversation_id = save.currentConversationId

LaunchInv ==
    /\ save.launched # {} =>
            /\ SaveAnswered /\ save.res[1] = 200
            /\ save.launched = {save.userMessageId, save.aiMessageId}
            /\ Cardinality(save.launched) = 2
    /\ (SaveAnswered /\ save.res[1] = 200) => save.launched # {}
    /\ (SaveAnswered /\ save.res[1] # 200) => save.launched = {}

\* the step that launches: everything was stored before it, and after it the
\* response is out while the calls it started still wait for the provider
LaunchStep ==
    (save.launched = {} /\ save'.launched # {}) =>
        /\ save.pc = "stats"
        /\ SavedRow(messages, save.userMessageId, save.userMessage)
        /\ SavedRow(messages, save.aiMessageId, save.aiMessage)
        /\ save'.res = <<200>>
        /\ \A m \in save'.launched :
                /\ \A e \in embeddings' : e.message_id # m
                /\ m \in DOMAIN tasks' => tasks'[m].pc = "provider"
        /\ DOMAIN tasks' \ DOMAIN tasks \subseteq save'.launched
        /\ \A m \in save'.launched :
                (\E r \in messages : r.id = m /\ Len(trim(r.content)) >= 3)
                    => m \in DOMAIN tasks'

\* a step that starts detached calls is a launch of the save request
OnlySaveLaunches ==
    (DOMAIN tasks' \ DOMAIN tasks # {}) => (save.pc = "stats" /\ save'.launched # {})

\* C11: saveChatMessages launches the embedding tasks only after the user
\* message, the AI message and the conversation update are stored, launches
\* exactly two (one per saved message id), answers 200 without waiting for
\* the tasks, and launches none when a save step fails.
C11_TasksLaunchedAfterSaveUnawaited ==
    /\ []LaunchInv
    /\ [][LaunchStep /\ OnlySaveLaunches]_vars

C11_Witness ==
    /\ SaveAnswered /\ save.res[1] = 200
    /\ Cardinality(DOMAIN tasks) >= 2
    /\ \A m \in save.launched : m \in DOMAIN tasks /\ tasks[m].pc = "provider"

\* a step of a detached call: a call ends or moves on, none starts
TaskMoves == tasks' # tasks /\ DOMAIN tasks' \subseteq DOMAIN tasks

\* C12: whatever the detached tasks end in, the response of the save that
\* launched them and the saved messages are unaffected, and no task failure
\* reaches the caller or another request.
C12_TaskOutcomeNeverReachesCaller ==
    /\ [](SaveAnswered /\ save.res[1] = 200 =>
            /\ SavedRow(messages, save.userMessageId, save.userMessage)
            /\ SavedRow(messages, save.aiMessageId, save.aiMessage))
    /\ [][TaskMoves => /\ save' = save
                       /\ messages' = messages
                       /\ conversations' = conversations
                       /\ search' = search /\ backfill' = backfill /\ del' = del]_vars

\* both tasks of an answered save have ended, one of them without a row
C12_Witness ==
    /\ SaveAnswered /\ save.res[1] = 200
    /\ DOMAIN tasks = {}
    /\ \E m \in save.launched :
            /\ \A e \in embeddings : e.message_id # m
            /\ \E r \in messages : r.id = m /\ Len(trim(r.content)) >= 3

(***************************************************************************)
(* Search right after a save                                               *)
(***************************************************************************)
\* text contains q as a substring (case-sensitive)
Contains(text, q) ==
    \E i \in 1 .. (Len(text) - Len(q) + 1) : SubSeq(text, i, i + Len(q) - 1) = q

HitIds(res) == {res.ranked[i].id : i \in 1 .. Len(res.ranked)}

NotEmbedded(m) == \A e \in embeddings : e.message_id # m

\* C13: a search by the saving user, answered while neither message of the
\* pair has its embedding stored, is a keyword search whose result contains
\* each new message whose text contains the query, whatever the embeddings
\* of the user's other messages are.
C13_SearchBeforeEmbeddingFindsNewMessage ==
    (/\ SearchDone /\ SearchRes.status = 200
     /\ search.userId = save.userId
     /\ \A m \in save.launched : NotEmbedded(m))
        => /\ SearchRes.searchType = "keyword"
           /\ \A r \in messages :
                (r.id \in save.launched
                   /\ Contains(r.content, CHOOSE q \in search.query : TRUE))
                    => r.id \in HitIds(SearchRes)

(***************************************************************************)
(* Termination and errors of a search                                      *)
(***************************************************************************)
SearchWaiting == search.pc \in {"embed", "fetch", "keyword"}

BestEffortResult ==
    /\ SearchDone
    /\ SearchRes.status = 200
    /\ \/ SearchRes.searchType = "semantic" /\ Len(SearchRes.ranked) > 0
       \/ SearchRes.searchType = "keyword"

\* C14: with a valid query and a store that answers, the search eventually
\* ends with a success response, semantic with hits or else keyword
\* (possibly empty), never an error, whatever the provider request ends in.
C14_SearchEndsWithBestEffortResult ==
    /\ SearchWaiting ~> BestEffortResult
    /\ []((SearchDone /\ ~ShortQuery(search.query)) => BestEffortResult)

\* the provider failed and nothing matched: an empty keyword result
C14_Witness ==
    /\ BestEffortResult
    /\ search.providerCalls = 1 /\ search.queryEmbedding = {}
    /\ SearchRes.searchType = "keyword" /\ Len(SearchRes.ranked) = 0

ExplicitFailure(res) ==
    /\ Len(res) = 1
    /\ res[1].status = 500
    /\ res[1].searchType \notin {"semantic", "keyword"}
    /\ res[1].conversations = <<>>
    /\ res[1].ranked = <<>>

\* C15: when the SELECT of the embedded messages or the keyword SELECT fails,
\* the search ends with a failure response without result groups, not with
\* an empty success or a fallback result.
C15_StoreFailureEndsSearchWithError ==
    [][(searchFetchReturn(FALSE) \/ performKeywordSearch(FALSE))
            => (search'.pc = "done" /\ ExplicitFailure(search'.res))]_vars

\* the embedded messages were read, none was usable, and the keyword SELECT failed
C15_Witness ==
    /\ SearchDone /\ SearchRes.status = 500
    /\ search.fetched >= 0 /\ search.storeQueries = 2

(***************************************************************************)
(* Store failures during a backfill run                                    *)
(***************************************************************************)
\* C16: a store failure during a backfill run is propagated to the caller:
\* a failed fetch of the unembedded messages ends the run with an error
\* response, and a failed upsert counts its item as failed, not as a success.
C16_BackfillStoreFailurePropagated ==
    [][/\ backfillFetchReturn(FALSE) =>
            (backfill'.pc = "done" /\ backfill'.res = <<BackfillError>>)
       /\ backfillStoreReturn(FALSE) =>
            /\ backfill'.successCount = backfill.successCount
            /\ backfill'.failCount = backfill.failCount + 1]_vars

(***************************************************************************)
(* generateEmbedding                                                       *)
(***************************************************************************)
EmbedCallDone == call.fn = "generateEmbedding" /\ call.pc = "done"

\* the content of message m is absent or trims to fewer than 3 characters
ShortContent(m) == \A r \in messages : r.id = m => Len(trim(r.content)) < 3

\* the rows of the run that have been taken up so far
TakenUp == {j \in 1 .. Len(backfill.rows) : j <= backfill.i}

\* C17: generateEmbedding returns absent without a provider request when the
\* text is absent or trims to fewer than 3 characters; a detached task or a
\* backfill item with such a content makes no provider request and stores
\* no embedding.
C17_ShortTextNeverReachesProvider ==
    /\ (EmbedCallDone /\ ShortQuery(call.text)) =>
            (call.requests = 0 /\ call.result = {} /\ ~call.raised)
    /\ \A m \in DOMAIN tasks : ~ShortContent(m)
    /\ \A e \in embeddings : ~ShortContent(e.message_id)
    /\ backfill.pc \in {"provider", "store", "done"} =>
            backfill.providerCalls =
                Cardinality({j \in TakenUp : Len(trim(backfill.rows[j].content)) >= 3})

\* a save with a short message has answered, a backfill run has passed over
\* a short message, and generateEmbedding was called with a short text
C17_Witness ==
    /\ SaveAnswered /\ save.res[1] = 200
    /\ \E m \in save.launched : ShortContent(m)
    /\ BackfillDone /\ KindCount({"skipped"}) >= 1
    /\ EmbedCallDone /\ call.text # {} /\ ShortQuery(call.text)

\* C18: for a text of trimmed length >= 3, a generateEmbedding call makes
\* exactly one provider request and, when the request fails (network error,
\* non-success status, timeout, unreadable body or no vector in it), returns
\* absent without raising.
C18_OneRequestFailureReturnsAbsent ==
    /\ []((EmbedCallDone /\ ~ShortQuery(call.text)) =>
                (call.requests = 1 /\ ~call.raised))
    /\ [][\A o \in ProviderOutcomes :
            (generateEmbeddingReturn(o) /\ o.kind # "ok") =>
                /\ call'.pc = "done"
                /\ call'.result = {}
                /\ ~call'.raised
                /\ call'.requests = 1]_vars

C18_Witness ==
    /\ EmbedCallDone /\ ~ShortQuery(call.text)
    /\ call.requests = 1 /\ call.result = {}

(***************************************************************************)
(* The keyword fallback                                                    *)
(***************************************************************************)
LowerAll(t) == [i \in 1 .. Len(t) |-> Lower(t[i])]

\* text contains q as a substring, letter case ignored
ContainsIgnoringCase(text, q) == Contains(LowerAll(text), LowerAll(q))

\* the messages of the user's conversations that contain the query
KeywordMatches(userId, q) ==
    {m \in messages :
        /\ ContainsIgnoringCase(m.content, q)
        /\ \E c \in conversations : c.id = m.conversation_id /\ c.user_id = userId}

CosineCallDone == call.fn = "cosineSimilarity" /\ call.pc = "done"

ZeroMagnitude(v) == \A i \in 1 .. Len(v) : v[i] = 0

Degenerate(vecA, vecB) ==
    \/ vecA = {}
    \/ vecB = {}
    \/ \E a \in vecA, b \in vecB :
            Len(a) # Len(b) \/ ZeroMagnitude(a) \/ ZeroMagnitude(b)

\* C20: cosineSimilarity returns 0, and raises nothing, when either input is
\* absent, the lengths differ, or either vector has zero magnitude (two empty
\* vectors included).
C20_CosineDegenerateIsZero ==
    (CosineCallDone /\ Degenerate(call.vecA, call.vecB)) =>
        (call.similarity = [num |-> 0, den |-> 1] /\ ~call.raised)

\* a zero vector against a non-zero vector of the same length
C20_Witness ==
    /\ CosineCallDone
    /\ \E a \in call.vecA, b \in call.vecB :
            Len(a) = Len(b) /\ Len(a) > 0 /\ ZeroMagnitude(a) /\ ~ZeroMagnitude(b)
    /\ call.similarity = [num |-> 0, den |-> 1]

EqualPositiveLength(vecA, vecB) ==
    /\ vecA # {} /\ vecB # {}
    /\ \A a \in vecA, b \in vecB : Len(a) = Len(b) /\ Len(a) > 0

\* C21: for vectors a, b of equal positive length, cosineSimilarity(a, b)
\* equals cosineSimilarity(b, a) and the value returned lies in [-1, 1].
C21_CosineSymmetricWithinUnitInterval ==
    (CosineCallDone /\ EqualPositiveLength(call.vecA, call.vecB)) =>
        /\ call.similarity = cosineSimilarity(call.vecB, call.vecA)
        /\ call.aboveOne = cosineSimilarityAboveOne(call.vecB, call.vecA)
        /\ -call.similarity.den <= call.similarity.num
        /\ call.similarity.num <= call.similarity.den
        /\ ~call.aboveOne

(***************************************************************************)
(* Paths of a search                                                       *)
(***************************************************************************)
\* the provider request of the search was made and gave no query embedding
QueryEmbeddingAbsent == search.providerCalls = 1 /\ search.queryEmbedding = {}

\* C22: when generateEmbedding returns absent for the query, searchMessages
\* goes straight to the keyword fallback: the stored embeddings are not
\* fetched, no similarity is computed, and the answer is tagged keyword.
C22_AbsentQueryEmbeddingGoesToKeyword ==
    /\ (search.pc \in {"keyword", "done"} /\ QueryEmbeddingAbsent) =>
            /\ search.fetched = -1
            /\ search.storeQueries = 1
    /\ (SearchDone /\ QueryEmbeddingAbsent /\ SearchRes.status = 200) =>
            /\ SearchRes.searchType = "keyword"
            /\ \A i \in 1 .. Len(SearchRes.ranked) :
                    SearchRes.ranked[i].similarity = KeywordSimilarity

\* the user had stored embeddings, and the keyword search found messages
C22_Witness ==
    /\ SearchDone /\ QueryEmbeddingAbsent /\ SearchRes.status = 200
    /\ UserEmbeddings(search.userId) # {}
    /\ Len(SearchRes.ranked) > 0

Unparseable(e) == JSONparse(e.embedding_vector) = {}

\* C23: a stored vector that cannot be deserialized excludes only its own
\* row from the ranking: the search does not fail, every other row is scored
\* and ranked, and when every row is unparseable the search falls back to
\* the keyword search.
C23_UnparseableRowExcludedAlone ==
    LET rows == UserEmbeddings(search.userId)
        passing == {e \in rows : RowPasses(e, search.queryEmbedding)}
    IN  /\ (search.pc \in {"keyword", "done"} /\ search.fetched >= 0) =>
                /\ search.fetched = Cardinality(rows)
                /\ (search.pc = "keyword" => passing = {})
        /\ (SearchDone /\ search.fetched >= 0 /\ passing # {}) =>
                /\ SearchRes.status = 200
                /\ SearchRes.searchType = "semantic"
                /\ HitIds(SearchRes) = {e.message_id : e \in passing}
        /\ (SearchDone /\ search.fetched >= 0 /\ SearchRes.status = 200
                /\ \A e \in rows : Unparseable(e)) =>
                SearchRes.searchType = "keyword"

\* an unreadable row next to a readable one that is ranked
C23_Witness ==
    /\ SearchDone /\ SearchRes.status = 200 /\ SearchRes.searchType = "semantic"
    /\ \E e \in UserEmbeddings(search.userId) : Unparseable(e)
    /\ Len(SearchRes.ranked) > 0

\* every embedding row refers to a message row
EmbeddingsReferToMessages ==
    \A e \in embeddings : \E m \in messages : m.id = e.message_id

MessageGone(m) == \A r \in messages : r.id # m

\* an INSERT of a task or of the backfill returns for a message that is gone
LateUpsertLands ==
    \/ \E m \in DOMAIN tasks :
            tasks[m].pc = "store" /\ MessageGone(m) /\ tasks' = Without(tasks, m)
    \/ /\ backfill.pc = "store" /\ backfill' # backfill
       /\ MessageGone(backfill.rows[backfill.i].id)

\* the rows written between the two DELETEs of the running deleteConversation
LandedBetweenDeletes ==
    {e \in embeddings : del.pc = "messages"
                         /\ \E m \in MessagesOf(del.conversationId) : m.id = e.message_id}

\* C24: in every reachable state every embedding row refers to an existing
\* message, under any interleaving of deleteConversation with the detached
\* tasks and the backfill upserts of that conversation's messages: an upsert
\* that lands after its message was deleted stores nothing, and one that
\* lands between the embedding delete and the message delete is removed
\* with the message.
C24_EmbeddingsAlwaysReferToMessages ==
    /\ []EmbeddingsReferToMessages
    /\ [][/\ LateUpsertLands => embeddings' = embeddings
          /\ (del.pc = "messages" /\ del'.pc = "conversation") =>
                \A e \in LandedBetweenDeletes : e \notin embeddings']_vars

\* an upsert has landed between the two DELETEs while the INSERT of the
\* other task is still in flight
C24_Witness ==
    /\ LandedBetweenDeletes # {}
    /\ \E m \in DOMAIN tasks : tasks[m].pc = "store"

\* the items of the running backfill whose provider request was made and
\* whose generateAndStoreEmbedding call has returned
SettledRequests ==
    Len(SelectSeq(backfill.log, LAMBDA x : x.kind # "skipped"))

CreatedAt(id) == (CHOOSE m \in messages : m.id = id).created_at

\* C25: within one backfill run the items are processed one after another
\* in the fetched (newest-first) order: the provider call and the upsert of
\* an item are finished before the provider call of the next item starts, so
\* the run never has more than one provider request in flight.
C25_BackfillItemsStrictlySequential ==
    backfill.pc \in {"provider", "store", "done"} =>
        /\ \A j, k \in 1 .. Len(backfill.rows) :
                j < k => CreatedAt(backfill.rows[j].id) > CreatedAt(backfill.rows[k].id)
        /\ Len(backfill.log) <= Len(backfill.rows)
        /\ \A j \in 1 .. Len(backfill.log) : backfill.log[j].id = backfill.rows[j].id
        /\ backfill.pc \in {"provider", "store"} =>
                /\ backfill.i = Len(backfill.log) + 1
                /\ backfill.providerCalls = SettledRequests + 1
        /\ backfill.pc = "done" => backfill.providerCalls = SettledRequests

\* the request of a third item is in flight after two items were settled
C25_Witness ==
    /\ backfill.pc = "provider"
    /\ SettledRequests >= 2
    /\ \E j \in 1 .. Len(backfill.log) : backfill.log[j].kind = "stored"

\* backfill requests of user `owner` with a limit the store accepts
BackfillRunsFor(owner) ==
    backfill.pc # "idle" /\ backfill.userId = owner /\ backfill.limit > 0

\* the running backfill is at message m: its provider request or its INSERT
\* is in flight
Attempted(m) ==
    /\ backfill.pc \in {"provider", "store"}
    /\ backfill.rows[backfill.i].id = m

\* the embeddings the table holds are those the backfill runs stored
OnlyBackfillEmbeds ==
    [][\A m \in 1 .. MaxBacklog :
            (NotEmbedded(m) /\ ~NotEmbedded(m)') =>
                (Attempted(m) /\ backfill.pc = "store")]_vars

\* C26: a message of trimmed length 3 or more whose detached task stored no
\* embedding stays unembedded until a backfill handles it, and repeated
\* backfill runs of its owner with a fixed limit eventually attempt it (and
\* store its embedding when the provider and the store succeed for it),
\* even if generation keeps failing for newer unembedded messages of the
\* same user.
C26_RepeatedBackfillReachesEveryMessage ==
    /\ OnlyBackfillEmbeds
    /\ \A m \in 1 .. MaxBacklog :
            (BackfillRunsFor(1) /\ ForeignKeyHolds(m) /\ NotEmbedded(m))
                ~> (Attempted(m) \/ ~NotEmbedded(m))

\* the four responses of POST /search
ResponseKind(r) ==
    CASE r.status = 400 -> "validation"
      [] r.status = 200 /\ r.searchType = "semantic" -> "semantic"
      [] r.status = 200 /\ r.searchType = "keyword" -> "keyword"
      [] r.status = 500 -> "failure"
      [] OTHER -> "other"

OneResponse ==
    /\ search.pc \in {"idle", "embed", "fetch", "keyword"} => search.res = <<>>
    /\ search.pc = "done" =>
            /\ Len(search.res) = 1
            /\ ResponseKind(search.res[1]) \in
                    {"validation", "semantic", "keyword", "failure"}

\* C27: every search request sends exactly one response and then stops: one
\* of validation error, semantic result, keyword result or failure response,
\* on every path, the failing keyword fallback included.
C27_SearchSendsExactlyOneResponse ==
    /\ []OneResponse
    /\ [][/\ search.pc \in {"embed", "fetch", "keyword"} =>
                (Len(search'.res) = 1) = (search'.pc = "done")
          /\ search.pc = "done" => (search' = search \/ ops' = ops + 1)]_vars

\* the provider failed and then the keyword fallback failed: one failure response
C27_Witness ==
    /\ SearchDone
    /\ search.providerCalls = 1 /\ search.queryEmbedding = {}
    /\ ResponseKind(SearchRes) = "failure"

\* the conversation row is there and belongs to the user
Owns(userId, conversationId) ==
    \E c \in conversations : c.id = conversationId /\ c.user_id = userId

EmbeddingsOf(conversationId) ==
    {e \in embeddings : \E m \in MessagesOf(conversationId) : m.id = e.message_id}

\* one of the three DELETEs of the running deleteConversation returns
DeleteReturns == del.pc \in {"embeddings", "messages", "conversation"} /\ del' # del

\* C28: deleteConversation called with a userId that does not own the
\* conversation leaves the messages of that conversation and their
\* embeddings unchanged: they are removed only together with a conversation
\* row that belongs to the given user.
C28_NonOwnerDeleteChangesNothing ==
    [][(DeleteReturns /\ ~Owns(del.userId, del.conversationId)) =>
            /\ MessagesOf(del.conversationId)' = MessagesOf(del.conversationId)
            /\ EmbeddingsOf(del.conversationId)' = EmbeddingsOf(del.conversationId)]_vars

====
